---- MODULE Spec2Model ----
(***************************************************************************)
(* EnOcean cover (src/cover.py): the EnOceanCover entity, its six command  *)
(* methods and its telegram decoder value_changed.                         *)
(*                                                                         *)
(* A method body is modelled as the ordered sequence of the statements it  *)
(* executes (attribute writes, schedule_update_ha_state calls and          *)
(* send_command calls); an action runs the whole sequence on the entity.   *)
(* Python's None is the empty tuple and a value v is the 1-tuple <<v>>, so *)
(* that "unknown" never compares equal to a value.                         *)
(*                                                                         *)
(* Spec runs the calls one at a time and remembers the last call.          *)
(* SpecTrace also records the telegrams handed to the transport.           *)
(* SpecRace lets a command and a decode interleave statement by statement. *)
(***************************************************************************)
EXTENDS Integers, Sequences, FiniteSets, TLC

VARIABLES
    _attr_is_opening,               \* None or Some(TRUE)
    _attr_is_closing,               \* None or Some(TRUE)
    _attr_is_closed,                \* None, Some(FALSE) (open) or Some(TRUE) (closed)
    _attr_current_cover_position,   \* None or Some(byte)
    _reverse,                       \* BOOLEAN, fixed at construction
    calls,                          \* history: statements executed by the last call, in order
    last,                           \* history: the last call, [op, packet]
    pre,                            \* history: the attributes before the last call
    repeated,                       \* history: the last call repeats the call before it
    sent,                           \* history: every telegram handed to the transport so far
                                    \* (recorded under SpecTrace)
    race                            \* a command and a decode running at once (under SpecRace)

vars == <<_attr_is_opening, _attr_is_closing, _attr_is_closed,
          _attr_current_cover_position, _reverse, calls, last, pre, repeated,
          sent, race>>

None == <<>>
Some(v) == <<v>>

(***************************************************************************)
(* Bounds and inputs.                                                      *)
(***************************************************************************)
\* data[1] is drawn from the bytes within MaxNear of the decoder's branch
\* points 0x00, 0x64, 0x7F and of the largest byte 0xFF.
MaxNear == 1

Near(b, c) == (b - c <= MaxNear) /\ (c - b <= MaxNear)

Bytes == {b \in 0..255 : Near(b, 0) \/ Near(b, 100) \/ Near(b, 127) \/ Near(b, 255)}

\* the configured addresses: a 3-byte device address (matched against
\* data[5:8]) and a 4-byte sender address
dev_id == <<5, 16, 129>>
_sender_id == <<255, 198, 234, 1>>

\* an address of another device
OtherId == <<5, 16, 130>>

\* D2 (VLD) and F6 (RPS) telegram types
Rorgs == {210, 246}

\* packet.data = [rorg, val, 0, 0, 0] + sender address + [0, status]
Packets == {[data |-> <<r, v, 0, 0, 0>> \o a \o <<0, 0>>] :
                r \in Rorgs, v \in Bytes, a \in {dev_id, OtherId}}

\* packets cut short in transport: the first n bytes, n = 0..7, of the
\* packets that report val = 0x64
Malformed == {[data |-> SubSeq(p.data, 1, n)] :
                  p \in {q \in Packets : q.data[2] = 100}, n \in 0..7}

NoPacket == [data |-> <<>>]

(***************************************************************************)
(* Python list access.                                                     *)
(***************************************************************************)
\* s[lo:hi] for 0 <= lo <= hi: clipped to the list, never raises
Slice(s, lo, hi) ==
    LET top == IF hi < Len(s) THEN hi ELSE Len(s)
    IN  IF top <= lo THEN <<>> ELSE [i \in 1..(top - lo) |-> s[lo + i]]

\* s[i] for 0 <= i < len(s)
Item(s, i) == s[i + 1]

(***************************************************************************)
(* Statements.                                                             *)
(***************************************************************************)
SetAttr(name, value) == [kind |-> "setattr", name |-> name, value |-> value]

schedule_update_ha_state == <<[kind |-> "schedule_update_ha_state"]>>

send_command(data, optional, packet_type) ==
    <<[kind |-> "send_command", data |-> data, optional |-> optional,
       packet_type |-> packet_type]>>

\* packet.data[0] on an empty list, or packet.data[1] on a list of one byte:
\* the exception leaves the method
IndexError == <<[kind |-> "raise", exc |-> "IndexError"]>>

press_up_button ==
    send_command(<<246, 112>> \o _sender_id \o <<48>>, <<3>> \o dev_id \o <<64>>, 1)

press_down_button ==
    send_command(<<246, 80>> \o _sender_id \o <<48>>, <<3>> \o dev_id \o <<64>>, 1)

\* variant: the release telegram carries the status byte of a press
release_button_press_status ==
    send_command(<<246, 0>> \o _sender_id \o <<48>>, <<3>> \o dev_id \o <<64>>, 1)

release_button ==
    send_command(<<246, 0>> \o _sender_id \o <<32>>, <<3>> \o dev_id \o <<64>>, 1)

(***************************************************************************)
(* Method bodies: the statements a call executes, given the entity.        *)
(***************************************************************************)
\* variant: open_cover presses "up" whatever the orientation
open_cover_ignores_reverse(self) ==
    <<SetAttr("_attr_is_opening", Some(TRUE))>>
    \o schedule_update_ha_state
    \o press_up_button
    \o release_button

\* variant: open_cover first marks the cover as not closed
open_cover_marks_open(self) ==
    <<SetAttr("_attr_is_closed", Some(FALSE)), SetAttr("_attr_is_opening", Some(TRUE))>>
    \o schedule_update_ha_state
    \o (IF self._reverse THEN press_down_button ELSE press_up_button)
    \o release_button

open_cover(self) ==
    <<SetAttr("_attr_is_opening", Some(TRUE))>>
    \o schedule_update_ha_state
    \o (IF self._reverse THEN press_down_button ELSE press_up_button)
    \o release_button

\* variant: close_cover does not release the button
close_cover_no_release(self) ==
    <<SetAttr("_attr_is_closing", Some(TRUE))>>
    \o schedule_update_ha_state
    \o (IF self._reverse THEN press_up_button ELSE press_down_button)

close_cover(self) ==
    <<SetAttr("_attr_is_closing", Some(TRUE))>>
    \o schedule_update_ha_state
    \o (IF self._reverse THEN press_up_button ELSE press_down_button)
    \o release_button

\* variant: the first telegram goes out before the host is notified
stop_cover_sends_first(self) ==
    <<SetAttr("_attr_is_closing", None), SetAttr("_attr_is_opening", None)>>
    \o press_down_button
    \o schedule_update_ha_state
    \o release_button

\* variant: stopping also forgets the position
stop_cover_forgets_position(self) ==
    <<SetAttr("_attr_is_closing", None), SetAttr("_attr_is_opening", None),
      SetAttr("_attr_current_cover_position", None)>>
    \o schedule_update_ha_state
    \o press_down_button
    \o release_button

stop_cover(self) ==
    <<SetAttr("_attr_is_closing", None), SetAttr("_attr_is_opening", None)>>
    \o schedule_update_ha_state
    \o press_down_button
    \o release_button

\* variant: opening the tilt clears the closing flag
open_cover_tilt_clears_closing(self) ==
    <<SetAttr("_attr_is_opening", Some(TRUE)), SetAttr("_attr_is_closing", None)>>
    \o schedule_update_ha_state
    \o (IF self._reverse THEN press_down_button ELSE press_up_button)
    \o release_button
    \o (IF self._reverse THEN press_down_button ELSE press_up_button)
    \o release_button

open_cover_tilt(self) ==
    <<SetAttr("_attr_is_opening", Some(TRUE))>>
    \o schedule_update_ha_state
    \o (IF self._reverse THEN press_down_button ELSE press_up_button)
    \o release_button
    \o (IF self._reverse THEN press_down_button ELSE press_up_button)
    \o release_button

\* variant: the tilt sends the close sequence once
close_cover_tilt_once(self) ==
    <<SetAttr("_attr_is_closing", Some(TRUE))>>
    \o schedule_update_ha_state
    \o (IF self._reverse THEN press_up_button ELSE press_down_button)
    \o release_button

close_cover_tilt(self) ==
    <<SetAttr("_attr_is_closing", Some(TRUE))>>
    \o schedule_update_ha_state
    \o (IF self._reverse THEN press_up_button ELSE press_down_button)
    \o release_button
    \o (IF self._reverse THEN press_up_button ELSE press_down_button)
    \o release_button

\* variant: the tilt stop follows the orientation
stop_cover_tilt_reversible(self) ==
    <<SetAttr("_attr_is_closing", None), SetAttr("_attr_is_opening", None)>>
    \o schedule_update_ha_state
    \o (IF self._reverse THEN press_up_button ELSE press_down_button)
    \o release_button

stop_cover_tilt(self) ==
    <<SetAttr("_attr_is_closing", None), SetAttr("_attr_is_opening", None)>>
    \o schedule_update_ha_state
    \o press_down_button
    \o release_button

\* variant: the relevance test accepts a packet on either condition
IsRelevant_either(packet) ==
    Item(packet.data, 0) = 210 \/ Slice(packet.data, 5, 8) = dev_id

\* the relevance test of value_changed
IsRelevant(packet) ==
    Item(packet.data, 0) = 210 /\ Slice(packet.data, 5, 8) = dev_id

\* variant: an intermediate position is stored without notifying the host
Stopped_silent(val) ==
    IF val = 0
    THEN <<SetAttr("_attr_current_cover_position", Some(0)),
           SetAttr("_attr_is_closed", Some(FALSE))>>
         \o schedule_update_ha_state
    ELSE IF val = 100
    THEN <<SetAttr("_attr_current_cover_position", Some(100)),
           SetAttr("_attr_is_closed", Some(TRUE))>>
         \o schedule_update_ha_state
    ELSE <<SetAttr("_attr_current_cover_position", Some(val))>>

\* the tail of value_changed after the motion flags are cleared
Stopped(val) ==
    IF val = 0
    THEN <<SetAttr("_attr_current_cover_position", Some(0)),
           SetAttr("_attr_is_closed", Some(FALSE))>>
         \o schedule_update_ha_state
    ELSE IF val = 100
    THEN <<SetAttr("_attr_current_cover_position", Some(100)),
           SetAttr("_attr_is_closed", Some(TRUE))>>
         \o schedule_update_ha_state
    ELSE <<SetAttr("_attr_current_cover_position", Some(val))>>
         \o schedule_update_ha_state

\* variant: "shutter has stopped" clears only _attr_is_closing
value_changed_keeps_opening(self, packet) ==
    IF Len(packet.data) = 0
    THEN IndexError
    ELSE IF IsRelevant(packet) /\ Len(packet.data) < 2
    THEN IndexError
    ELSE IF IsRelevant(packet)
    THEN LET val == Item(packet.data, 1)
         IN  IF val = 127
             THEN <<SetAttr("_attr_is_closed", None)>> \o schedule_update_ha_state
             ELSE <<SetAttr("_attr_is_closing", None)>> \o Stopped(val)
    ELSE <<>>

\* variant: the val == 0x64 branch is missing
value_changed_no_closed_branch(self, packet) ==
    IF Len(packet.data) = 0
    THEN IndexError
    ELSE IF IsRelevant(packet) /\ Len(packet.data) < 2
    THEN IndexError
    ELSE IF IsRelevant(packet)
    THEN LET val == Item(packet.data, 1)
         IN  IF val = 127
             THEN <<SetAttr("_attr_is_closed", None)>> \o schedule_update_ha_state
             ELSE <<SetAttr("_attr_is_closing", None), SetAttr("_attr_is_opening", None)>>
                  \o (IF val = 0
                      THEN Stopped(0)
                      ELSE <<SetAttr("_attr_current_cover_position", Some(val))>>
                           \o schedule_update_ha_state)
    ELSE <<>>

\* variant: the val == 0x7F branch does not return
value_changed_no_return(self, packet) ==
    IF Len(packet.data) = 0
    THEN IndexError
    ELSE IF IsRelevant(packet) /\ Len(packet.data) < 2
    THEN IndexError
    ELSE IF IsRelevant(packet)
    THEN LET val == Item(packet.data, 1)
         IN  (IF val = 127
              THEN <<SetAttr("_attr_is_closed", None)>> \o schedule_update_ha_state
              ELSE <<>>)
             \o <<SetAttr("_attr_is_closing", None), SetAttr("_attr_is_opening", None)>>
             \o Stopped(val)
    ELSE <<>>

\* variant: the motion flags are cleared only once the reported position
\* repeats the stored one
value_changed_debounced(self, packet) ==
    IF Len(packet.data) = 0
    THEN IndexError
    ELSE IF IsRelevant(packet) /\ Len(packet.data) < 2
    THEN IndexError
    ELSE IF IsRelevant(packet)
    THEN LET val == Item(packet.data, 1)
         IN  IF val = 127
             THEN <<SetAttr("_attr_is_closed", None)>> \o schedule_update_ha_state
             ELSE (IF self._attr_current_cover_position = Some(val)
                   THEN <<SetAttr("_attr_is_closing", None),
                          SetAttr("_attr_is_opening", None)>>
                   ELSE <<>>)
                  \o Stopped(val)
    ELSE <<>>

value_changed(self, packet) ==
    IF Len(packet.data) = 0
    THEN IndexError
    ELSE IF IsRelevant(packet) /\ Len(packet.data) < 2
    THEN IndexError
    ELSE IF IsRelevant(packet)
    THEN LET val == Item(packet.data, 1)
         IN  IF val = 127
             THEN <<SetAttr("_attr_is_closed", None)>> \o schedule_update_ha_state
             ELSE <<SetAttr("_attr_is_closing", None), SetAttr("_attr_is_opening", None)>>
                  \o Stopped(val)
    ELSE <<>>

(***************************************************************************)
(* The calls a body makes.                                                 *)
(***************************************************************************)
IsSend(stmt) == stmt.kind = "send_command"

IsNotify(stmt) == stmt.kind = "schedule_update_ha_state"

\* the telegrams of a statement sequence, in order
Telegrams(stmts) == SelectSeq(stmts, IsSend)

Notifications(stmts) == SelectSeq(stmts, IsNotify)

(***************************************************************************)
(* Running a body on the entity.                                           *)
(***************************************************************************)
\* the entity as the methods see it
Self == [_attr_is_opening |-> _attr_is_opening,
         _attr_is_closing |-> _attr_is_closing,
         _attr_is_closed |-> _attr_is_closed,
         _attr_current_cover_position |-> _attr_current_cover_position,
         _reverse |-> _reverse]

Step(self, stmt) ==
    IF stmt.kind = "setattr" THEN [self EXCEPT ![stmt.name] = stmt.value] ELSE self

RECURSIVE Exec(_, _)
Exec(self, stmts) ==
    IF stmts = <<>> THEN self ELSE Exec(Step(self, Head(stmts)), Tail(stmts))

\* a call of method op (with its packet, if any) whose body is stmts
Call(op, packet, stmts) ==
    LET post == Exec(Self, stmts)
    IN  /\ _attr_is_opening' = post._attr_is_opening
        /\ _attr_is_closing' = post._attr_is_closing
        /\ _attr_is_closed' = post._attr_is_closed
        /\ _attr_current_cover_position' = post._attr_current_cover_position
        /\ _reverse' = post._reverse
        /\ calls' = stmts
        /\ last' = [op |-> op, packet |-> packet]
        /\ pre' = Self
        /\ repeated' = (last = [op |-> op, packet |-> packet])
        /\ UNCHANGED race

(***************************************************************************)
(* The state machine.                                                      *)
(***************************************************************************)
\* no call is in progress
NoRace == [active |-> FALSE]

\* EnOceanCover.__init__: _attr_is_closed = None; the other attributes keep
\* the CoverEntity defaults (None); reverse comes from the configuration
Init ==
    /\ _attr_is_opening = None
    /\ _attr_is_closing = None
    /\ _attr_is_closed = None
    /\ _attr_current_cover_position = None
    /\ _reverse \in BOOLEAN
    /\ calls = <<>>
    /\ last = [op |-> "__init__", packet |-> NoPacket]
    /\ pre = [_attr_is_opening |-> None, _attr_is_closing |-> None,
              _attr_is_closed |-> None, _attr_current_cover_position |-> None,
              _reverse |-> _reverse]
    /\ repeated = FALSE
    /\ sent = <<>>
    /\ race = NoRace

OpenCover == Call("open_cover", NoPacket, open_cover(Self)) /\ UNCHANGED sent

CloseCover == Call("close_cover", NoPacket, close_cover(Self)) /\ UNCHANGED sent

StopCover == Call("stop_cover", NoPacket, stop_cover(Self)) /\ UNCHANGED sent

OpenCoverTilt == Call("open_cover_tilt", NoPacket, open_cover_tilt(Self)) /\ UNCHANGED sent

CloseCoverTilt == Call("close_cover_tilt", NoPacket, close_cover_tilt(Self)) /\ UNCHANGED sent

StopCoverTilt == Call("stop_cover_tilt", NoPacket, stop_cover_tilt(Self)) /\ UNCHANGED sent

ValueChanged ==
    \E packet \in Packets \cup Malformed :
        Call("value_changed", packet, value_changed(Self, packet)) /\ UNCHANGED sent

Next ==
    \/ OpenCover
    \/ CloseCover
    \/ StopCover
    \/ OpenCoverTilt
    \/ CloseCoverTilt
    \/ StopCoverTilt
    \/ ValueChanged

Spec == Init /\ [][Next]_vars

(***************************************************************************)
(* The same calls with the outbound trace recorded: every telegram a call  *)
(* hands to the transport is appended to sent, up to MaxSent telegrams.    *)
(***************************************************************************)
MaxSent == 6

Commands == {"open_cover", "close_cover", "stop_cover",
             "open_cover_tilt", "close_cover_tilt", "stop_cover_tilt"}

\* the body of command op
Body(op, self) ==
    CASE op = "open_cover" -> open_cover(self)
      [] op = "close_cover" -> close_cover(self)
      [] op = "stop_cover" -> stop_cover(self)
      [] op = "open_cover_tilt" -> open_cover_tilt(self)
      [] op = "close_cover_tilt" -> close_cover_tilt(self)
      [] op = "stop_cover_tilt" -> stop_cover_tilt(self)

\* the packets decoded while the trace is recorded: val 0x64 and 0x7F, of
\* either telegram type and for either address
TracePackets == {p \in Packets : p.data[2] \in {100, 127}}

Traced(stmts) ==
    /\ Len(sent) + Len(Telegrams(stmts)) <= MaxSent
    /\ sent' = sent \o Telegrams(stmts)

TracedCommand ==
    \E op \in Commands :
        Call(op, NoPacket, Body(op, Self)) /\ Traced(Body(op, Self))

TracedValueChanged ==
    \E packet \in TracePackets :
        Call("value_changed", packet, value_changed(Self, packet))
        /\ Traced(value_changed(Self, packet))

NextTrace ==
    \/ TracedCommand
    \/ TracedValueChanged

SpecTrace == Init /\ [][NextTrace]_vars

(***************************************************************************)
(* A command call and a value_changed call on a relevant packet running at *)
(* once, with no lock: the two bodies interleave statement by statement.   *)
(* Between races, calls run alone and whole.                               *)
(***************************************************************************)
\* the relevant packets decoded under SpecRace: one val per branch of
\* value_changed (0x00, intermediate, 0x64, 0x7F)
RacePackets == {p \in Packets : IsRelevant(p) /\ p.data[2] \in {0, 1, 100, 127}}

\* the attributes become those of self
Store(self) ==
    /\ _attr_is_opening' = self._attr_is_opening
    /\ _attr_is_closing' = self._attr_is_closing
    /\ _attr_is_closed' = self._attr_is_closed
    /\ _attr_current_cover_position' = self._attr_current_cover_position
    /\ _reverse' = self._reverse

SerialCommand ==
    /\ ~race.active
    /\ \E op \in Commands : Store(Exec(Self, Body(op, Self)))
    /\ UNCHANGED <<calls, last, pre, repeated, sent, race>>

SerialValueChanged ==
    /\ ~race.active
    /\ \E packet \in RacePackets : Store(Exec(Self, value_changed(Self, packet)))
    /\ UNCHANGED <<calls, last, pre, repeated, sent, race>>

\* a command and a decode are both entered
Begin ==
    /\ ~race.active
    /\ \E op \in Commands, packet \in RacePackets :
           race' = [active |-> TRUE,
                    command |-> Body(op, Self),
                    decode |-> value_changed(Self, packet),
                    pc_command |-> 1,
                    pc_decode |-> 1,
                    start |-> Self,
                    interleaved |-> FALSE]
    /\ UNCHANGED <<_attr_is_opening, _attr_is_closing, _attr_is_closed,
                   _attr_current_cover_position, _reverse,
                   calls, last, pre, repeated, sent>>

\* the other call has executed at least one statement and has not returned
Midway(pc, stmts) == 1 < pc /\ pc <= Len(stmts)

\* the command executes its next statement
CommandStep ==
    /\ race.active
    /\ race.pc_command <= Len(race.command)
    /\ Store(Step(Self, race.command[race.pc_command]))
    /\ race' = [race EXCEPT !.pc_command = @ + 1,
                            !.interleaved = @ \/ Midway(race.pc_decode, race.decode)]
    /\ UNCHANGED <<calls, last, pre, repeated, sent>>

\* value_changed executes its next statement
DecodeStep ==
    /\ race.active
    /\ race.pc_decode <= Len(race.decode)
    /\ Store(Step(Self, race.decode[race.pc_decode]))
    /\ race' = [race EXCEPT !.pc_decode = @ + 1,
                            !.interleaved = @ \/ Midway(race.pc_command, race.command)]
    /\ UNCHANGED <<calls, last, pre, repeated, sent>>

\* both calls have returned
Finished ==
    /\ race.active
    /\ race.pc_command > Len(race.command)
    /\ race.pc_decode > Len(race.decode)

End ==
    /\ Finished
    /\ race' = NoRace
    /\ UNCHANGED <<_attr_is_opening, _attr_is_closing, _attr_is_closed,
                   _attr_current_cover_position, _reverse,
                   calls, last, pre, repeated, sent>>

NextRace ==
    \/ SerialCommand
    \/ SerialValueChanged
    \/ Begin
    \/ CommandStep
    \/ DecodeStep
    \/ End

SpecRace == Init /\ [][NextRace]_vars

(***************************************************************************)
(* Observations.                                                           *)
(***************************************************************************)

is_opening == _attr_is_opening
is_closing == _attr_is_closing
is_closed == _attr_is_closed
current_cover_position == _attr_current_cover_position

TypeOK ==
    /\ _attr_is_opening \in {None, Some(TRUE)}
    /\ _attr_is_closing \in {None, Some(TRUE)}
    /\ _attr_is_closed \in {None, Some(FALSE), Some(TRUE)}
    /\ _attr_current_cover_position \in {None} \cup {Some(b) : b \in 0..255}
    /\ _reverse \in BOOLEAN

(***************************************************************************)
(* Vocabulary of the properties.  The relevance of the last packet is      *)
(* restated here from the packet's bytes.                                  *)
(***************************************************************************)
Attrs(self) == <<self._attr_is_opening, self._attr_is_closing, self._attr_is_closed,
                 self._attr_current_cover_position>>

Decoded == last.op = "value_changed"

\* data[1] of the last packet (-1 when the packet has no such byte)
LastVal == IF Len(last.packet.data) >= 2 THEN last.packet.data[2] ELSE -1

Addressed ==
    /\ Decoded
    /\ Len(last.packet.data) >= 8
    /\ last.packet.data[1] = 210
    /\ SubSeq(last.packet.data, 6, 8) = dev_id

NotAddressed ==
    /\ Decoded
    /\ Len(last.packet.data) >= 1
    /\ (last.packet.data[1] # 210 \/ Slice(last.packet.data, 5, 8) # dev_id)

Moving == _attr_is_opening = Some(TRUE) \/ _attr_is_closing = Some(TRUE)

(***************************************************************************)
(* Properties.                                                             *)
(***************************************************************************)
\* C1: in every reachable state the cover position is unknown or an integer
\* in [0, 100], for packets whose second data byte is any byte.
C1_PositionInRange ==
    \/ _attr_current_cover_position = None
    \/ _attr_current_cover_position[1] \in 0..100

\* C2: whenever the cover is moving (is_opening or is_closing is true) the
\* closed flag is unknown (None).
C2_MovingClosedUnknown == Moving => _attr_is_closed = None

\* C3: after open_cover or open_cover_tilt is_opening is true and is_closing
\* is not; after close_cover or close_cover_tilt is_closing is true and
\* is_opening is not; is_opening and is_closing are never both true.
C3_ExactlyOneMotion ==
    /\ last.op \in {"open_cover", "open_cover_tilt"}
          => _attr_is_opening = Some(TRUE) /\ _attr_is_closing # Some(TRUE)
    /\ last.op \in {"close_cover", "close_cover_tilt"}
          => _attr_is_closing = Some(TRUE) /\ _attr_is_opening # Some(TRUE)
    /\ ~(_attr_is_opening = Some(TRUE) /\ _attr_is_closing = Some(TRUE))

\* C4: value_changed on a relevant packet with data[1] = val in 0..100 leaves
\* position equal to val and both motion flags cleared, from every prior state.
C4_DecodePosition ==
    (Addressed /\ LastVal \in 0..100)
        => /\ _attr_current_cover_position = Some(LastVal)
           /\ _attr_is_opening = None
           /\ _attr_is_closing = None

\* a relevant packet with an intermediate val was decoded while both motion
\* flags were set and another position was stored
C4_Witness ==
    /\ Addressed
    /\ LastVal \in 1..99
    /\ pre._attr_is_opening = Some(TRUE)
    /\ pre._attr_is_closing = Some(TRUE)
    /\ pre._attr_current_cover_position \notin {None, Some(LastVal)}
    /\ _attr_current_cover_position = Some(LastVal)

\* C5: value_changed on a relevant packet with 0 < val < 100 leaves the closed
\* flag unknown, also when the closed flag was open or closed before.
C5_IntermediateClosedUnknown ==
    (Addressed /\ LastVal > 0 /\ LastVal < 100) => _attr_is_closed = None

\* C6: decoding a relevant packet with val = 0x00 yields exactly motion idle,
\* position 0, closed flag open; with val = 0x64 exactly motion idle,
\* position 100, closed flag closed; from any state.
C6_DecodeEndpoints ==
    /\ (Addressed /\ LastVal = 0)
          => Attrs(Self) = <<None, None, Some(FALSE), Some(0)>>
    /\ (Addressed /\ LastVal = 100)
          => Attrs(Self) = <<None, None, Some(TRUE), Some(100)>>

\* val = 0x64 was decoded right after commands had set both motion flags on a
\* cover last reported fully open
C6_Witness ==
    /\ Addressed
    /\ LastVal = 100
    /\ Attrs(pre) = <<Some(TRUE), Some(TRUE), Some(FALSE), Some(0)>>
    /\ Attrs(Self) = <<None, None, Some(TRUE), Some(100)>>

\* C7: decoding a relevant packet with val = 0x7F sets the closed flag to
\* unknown and leaves position, is_opening and is_closing as they were.
C7_DecodeMoving ==
    (Addressed /\ LastVal = 127)
        => /\ _attr_is_closed = None
           /\ _attr_current_cover_position = pre._attr_current_cover_position
           /\ _attr_is_opening = pre._attr_is_opening
           /\ _attr_is_closing = pre._attr_is_closing

\* val = 0x7F was decoded on a closed cover that a command had set opening
C7_Witness ==
    /\ Addressed
    /\ LastVal = 127
    /\ Attrs(pre) = <<Some(TRUE), None, Some(TRUE), Some(100)>>
    /\ Attrs(Self) = <<Some(TRUE), None, None, Some(100)>>

\* C8: value_changed on a packet whose first data byte is not 0xD2, or whose
\* data[5..7] differs from dev_id, changes no attribute, emits no state-update
\* notification and sends no telegram, whatever data[1] is.
C8_IrrelevantIgnored ==
    NotAddressed
        => /\ Attrs(Self) = Attrs(pre)
           /\ Notifications(calls) = <<>>
           /\ Telegrams(calls) = <<>>

\* a VLD packet of another device, carrying val = 0x64, arrived while the
\* cover was opening from a known position below 100
C8_Witness ==
    /\ NotAddressed
    /\ last.packet.data[1] = 210
    /\ LastVal = 100
    /\ pre._attr_is_opening = Some(TRUE)
    /\ pre._attr_current_cover_position \in {Some(0), Some(1), Some(99)}
    /\ Attrs(Self) = Attrs(pre)

\* C9: calling value_changed twice in a row with the same packet leaves the
\* same (is_opening, is_closing, is_closed, position) as calling it once.
C9_DecodeIdempotent ==
    (Decoded /\ repeated) => Attrs(Self) = Attrs(pre)

\* the same relevant packet was decoded twice in a row and the cover holds
\* the position it reports
C9_Witness ==
    /\ Addressed
    /\ repeated
    /\ LastVal \in 1..99
    /\ _attr_is_closed # None
    /\ _attr_current_cover_position = Some(LastVal)

\* C10: the telegrams sent by open_cover on a reversed device equal those
\* sent by close_cover on a non-reversed device, those of close_cover on a
\* reversed device equal those of open_cover on a non-reversed device, and
\* likewise for open_cover_tilt and close_cover_tilt.
C10_OrientationMirror ==
    LET normal == [Self EXCEPT !._reverse = FALSE]
    IN  /\ (last.op = "open_cover" /\ _reverse)
              => Telegrams(calls) = Telegrams(close_cover(normal))
        /\ (last.op = "close_cover" /\ _reverse)
              => Telegrams(calls) = Telegrams(open_cover(normal))
        /\ (last.op = "open_cover_tilt" /\ _reverse)
              => Telegrams(calls) = Telegrams(close_cover_tilt(normal))
        /\ (last.op = "close_cover_tilt" /\ _reverse)
              => Telegrams(calls) = Telegrams(open_cover_tilt(normal))

\* open_cover on a reversed device sent press-down, release
C10_Witness ==
    /\ last.op = "open_cover"
    /\ _reverse
    /\ Telegrams(calls) = press_down_button \o release_button

\* the subcommand bytes (data[1]) of the telegrams of a statement sequence
Subcommands(stmts) ==
    LET t == Telegrams(stmts) IN [i \in 1..Len(t) |-> t[i].data[2]]

Raised(stmts) == \E i \in 1..Len(stmts) : stmts[i].kind = "raise"

\* C11: stop_cover and stop_cover_tilt each send exactly press-down (0x50),
\* release (0x00), whatever the reversed flag and the prior state, and both
\* make the same state change (both motion flags cleared, the rest kept).
C11_StopSequence ==
    last.op \in {"stop_cover", "stop_cover_tilt"}
        => /\ Telegrams(calls) = press_down_button \o release_button
           /\ Subcommands(calls) = <<80, 0>>
           /\ Attrs(Self) = <<None, None, pre._attr_is_closed,
                              pre._attr_current_cover_position>>

\* stop_cover_tilt ran on a reversed device whose motion flags were both set
C11_Witness ==
    /\ last.op = "stop_cover_tilt"
    /\ _reverse
    /\ pre._attr_is_opening = Some(TRUE)
    /\ pre._attr_is_closing = Some(TRUE)
    /\ Subcommands(calls) = <<80, 0>>

\* C12: close_cover_tilt sends exactly 4 telegrams with subcommand bytes
\* [0x50, 0x00, 0x50, 0x00] on a non-reversed device and [0x70, 0x00, 0x70,
\* 0x00] on a reversed one; open_cover_tilt sends [0x70, 0x00, 0x70, 0x00]
\* on a non-reversed device and [0x50, 0x00, 0x50, 0x00] on a reversed one.
C12_TiltSequence ==
    /\ last.op = "close_cover_tilt"
          => Subcommands(calls) = (IF _reverse THEN <<112, 0, 112, 0>>
                                              ELSE <<80, 0, 80, 0>>)
    /\ last.op = "open_cover_tilt"
          => Subcommands(calls) = (IF _reverse THEN <<80, 0, 80, 0>>
                                              ELSE <<112, 0, 112, 0>>)

\* close_cover_tilt on a non-reversed device sent its four telegrams
C12_Witness ==
    /\ last.op = "close_cover_tilt"
    /\ ~_reverse
    /\ Len(Telegrams(calls)) = 4
    /\ Subcommands(calls) = <<80, 0, 80, 0>>

\* C13: value_changed never raises on a packet whose data field is too short
\* (length 0 through 7, the empty data field included): the call completes
\* without an error and leaves the state unchanged.
C13_MalformedIgnored ==
    (Decoded /\ Len(last.packet.data) <= 7)
        => ~Raised(calls) /\ Attrs(Self) = Attrs(pre)

\* C14: every telegram sent has telegram type 0x01, data = [0xF6, subcommand]
\* + sender_id + [status], optional = [0x03] + dev_id + [0x40]; the status is
\* 0x30 exactly when the subcommand is a press (0x70 or 0x50) and 0x20
\* exactly when it is a release (0x00).
C14_TelegramLayout ==
    \A i \in 1..Len(Telegrams(calls)) :
        LET t == Telegrams(calls)[i]
            sub == t.data[2]
            status == t.data[Len(t.data)]
        IN  /\ t.packet_type = 1
            /\ sub \in {112, 80, 0}
            /\ t.data = <<246, sub, 255, 198, 234, 1, status>>
            /\ t.optional = <<3, 5, 16, 129, 64>>
            /\ (status = 48) = (sub \in {112, 80})
            /\ (status = 32) = (sub = 0)

\* open_cover_tilt sent presses with status 0x30 and releases with status 0x20
C14_Witness ==
    /\ last.op = "open_cover_tilt"
    /\ Len(Telegrams(calls)) = 4
    /\ Telegrams(calls)[1].data[7] = 48
    /\ Telegrams(calls)[2].data[7] = 32

IsPress(t) == t.data[2] \in {112, 80}

IsRelease(t) == t.data[2] = 0

\* the telegram sequence is a concatenation of (press, release) pairs
Paired(t) ==
    /\ Len(t) % 2 = 0
    /\ \A i \in 1..Len(t) : IF i % 2 = 1 THEN IsPress(t[i]) ELSE IsRelease(t[i])

\* the number of (press, release) pairs a call contributes
Pairs(op) ==
    IF op \in {"open_cover", "close_cover", "stop_cover", "stop_cover_tilt"} THEN 1
    ELSE IF op \in {"open_cover_tilt", "close_cover_tilt"} THEN 2
    ELSE 0

\* C15: over any sequence of commands and decoded telegrams the outbound
\* trace is a concatenation of (press, release) pairs: every press is
\* immediately followed by a release, no two presses are adjacent, each of
\* open_cover, close_cover, stop_cover, stop_cover_tilt contributes exactly
\* one pair, each tilt open/close two pairs, and value_changed no telegram.
C15_PressReleasePairs ==
    /\ Paired(sent)
    /\ \A i \in 1..Len(sent) : IsPress(sent[i]) => i < Len(sent) /\ IsRelease(sent[i + 1])
    /\ \A i \in 1..(Len(sent) - 1) : ~(IsPress(sent[i]) /\ IsPress(sent[i + 1]))
    /\ Len(Telegrams(calls)) = 2 * Pairs(last.op)
    /\ Paired(Telegrams(calls))
    /\ Len(sent) >= Len(Telegrams(calls))
    /\ SubSeq(sent, Len(sent) - Len(Telegrams(calls)) + 1, Len(sent)) = Telegrams(calls)

\* a tilt, a command and then a decoded telegram left three pairs in the trace
C15_Witness ==
    /\ Decoded
    /\ Len(sent) = 6
    /\ [i \in 1..6 |-> sent[i].data[2]] = <<112, 0, 112, 0, 80, 0>>

IsCommand == last.op \in {"open_cover", "close_cover", "stop_cover",
                          "open_cover_tilt", "close_cover_tilt", "stop_cover_tilt"}

IsWrite(stmt) == stmt.kind = "setattr"

\* C16: in every command the optimistic motion-state write and the host
\* notification both happen before the command's first telegram is handed
\* to the transport; no telegram is sent before the command's notification.
C16_NotifyBeforeSend ==
    IsCommand =>
        \A i \in 1..Len(calls) :
            IsSend(calls[i])
                => /\ \E j \in 1..(i - 1) : IsNotify(calls[j])
                   /\ \E j \in 1..(i - 1) : IsWrite(calls[j])
                   /\ \A k \in i..Len(calls) : ~IsWrite(calls[k])

\* close_cover_tilt wrote its flag, notified the host and then sent
C16_Witness ==
    /\ last.op = "close_cover_tilt"
    /\ IsWrite(calls[1])
    /\ IsNotify(calls[2])
    /\ IsSend(calls[3])
    /\ Len(Telegrams(calls)) = 4

\* C17: no command changes the position; stop_cover and stop_cover_tilt clear
\* both motion flags and leave position and the closed flag as they were;
\* position changes only in value_changed on a relevant packet with val
\* other than 0x7F.
C17_PositionOnlyDecoded ==
    /\ IsCommand => _attr_current_cover_position = pre._attr_current_cover_position
    /\ last.op \in {"stop_cover", "stop_cover_tilt"}
          => Attrs(Self) = <<None, None, pre._attr_is_closed,
                             pre._attr_current_cover_position>>
    /\ _attr_current_cover_position # pre._attr_current_cover_position
          => Addressed /\ LastVal # 127

\* stop_cover ran on a closing cover last reported closed at position 100
C17_Witness ==
    /\ last.op = "stop_cover"
    /\ Attrs(pre) = <<None, Some(TRUE), Some(TRUE), Some(100)>>
    /\ Attrs(Self) = <<None, None, Some(TRUE), Some(100)>>

\* C18: each command call emits exactly one host state-update notification,
\* each value_changed call on a relevant packet emits exactly one on
\* whichever branch it takes, and an irrelevant packet emits none.
C18_OneNotification ==
    /\ IsCommand => Len(Notifications(calls)) = 1
    /\ Addressed => Len(Notifications(calls)) = 1
    /\ NotAddressed => Len(Notifications(calls)) = 0

\* a relevant packet with an intermediate val changed the position and
\* notified the host once
C18_Witness ==
    /\ Addressed
    /\ LastVal \in 1..99
    /\ _attr_current_cover_position # pre._attr_current_cover_position
    /\ Len(Notifications(calls)) = 1

Clears ==
    \/ last.op \in {"stop_cover", "stop_cover_tilt"}
    \/ (Addressed /\ LastVal # 127)

\* C19: a motion flag that is true stays true until stop_cover,
\* stop_cover_tilt or value_changed on a relevant packet with val other than
\* 0x7F clears it; no other operation clears is_opening or is_closing.
C19_FlagsPersist ==
    /\ (pre._attr_is_opening = Some(TRUE) /\ _attr_is_opening # Some(TRUE)) => Clears
    /\ (pre._attr_is_closing = Some(TRUE) /\ _attr_is_closing # Some(TRUE)) => Clears

\* the opposite-direction tilt command ran on a closing cover and the
\* closing flag is still set
C19_Witness ==
    /\ last.op = "open_cover_tilt"
    /\ pre._attr_is_closing = Some(TRUE)
    /\ _attr_is_closing = Some(TRUE)
    /\ _attr_is_opening = Some(TRUE)

\* C20: when the attribute writes of one command call interleave at
\* statement granularity with those of one value_changed call on a relevant
\* packet, the final (is_opening, is_closing, is_closed, position) equals the
\* final state of one of the two serial orders (command then decode, or
\* decode then command).
C20_RaceIsSerializable ==
    Finished
        => Attrs(Self) \in
              {Attrs(Exec(Exec(race.start, race.command), race.decode)),
               Attrs(Exec(Exec(race.start, race.decode), race.command))}

\* open_cover_tilt and the decode of val = 0x64 both returned after each ran
\* statements while the other was midway, on a cover that was closing and
\* last reported open; the two serial orders differ and the command wrote last
C20_Witness ==
    /\ Finished
    /\ race.interleaved
    /\ Len(race.command) = 6
    /\ Attrs(race.start) = <<None, Some(TRUE), Some(FALSE), Some(0)>>
    /\ Attrs(Self) = <<Some(TRUE), None, Some(TRUE), Some(100)>>
    /\ Attrs(Exec(Exec(race.start, race.command), race.decode)) # Attrs(Self)

====
